---- MODULE Spec2Model ----
(***************************************************************************)
(* A model of modedl/ytdownloader: the two Streamlit scripts or.py (single *)
(* progressive download with a time-boxed retention sweep of the download  *)
(* directory) and app.py (listing/downloading the largest progressive and  *)
(* the largest video-only stream).                                         *)
(*                                                                         *)
(* Text is modelled as sequences of one-character strings, so that         *)
(* str.split, strftime and strptime are computed character by character.   *)
(* A datetime is the triple <<ordinal day, second of day, microsecond>>,   *)
(* the representation Python's datetime arithmetic and comparison use.     *)
(***************************************************************************)
EXTENDS Integers, Sequences, FiniteSets, TLC

----------------------------------------------------------------------------
(* Characters and strings                                                  *)

Digits == {"0", "1", "2", "3", "4", "5", "6", "7", "8", "9"}

DigitVal(c) ==
    CASE c = "0" -> 0 [] c = "1" -> 1 [] c = "2" -> 2 [] c = "3" -> 3
      [] c = "4" -> 4 [] c = "5" -> 5 [] c = "6" -> 6 [] c = "7" -> 7
      [] c = "8" -> 8 [] c = "9" -> 9

DigitChar(n) ==
    CASE n = 0 -> "0" [] n = 1 -> "1" [] n = 2 -> "2" [] n = 3 -> "3"
      [] n = 4 -> "4" [] n = 5 -> "5" [] n = 6 -> "6" [] n = 7 -> "7"
      [] n = 8 -> "8" [] n = 9 -> "9"

Letters ==
    {"a", "b", "c", "d", "e", "f", "g", "h", "i", "j", "k", "l", "m", "n",
     "o", "p", "q", "r", "s", "t", "u", "v", "w", "x", "y", "z",
     "A", "B", "C", "D", "E", "F", "G", "H", "I", "J", "K", "L", "M", "N",
     "O", "P", "Q", "R", "S", "T", "U", "V", "W", "X", "Y", "Z"}

\* str.isalnum() of one character
IsAlnum(c) == c \in Letters \cup Digits

\* the longest prefix of s holding no sep
RECURSIVE UpTo(_, _)
UpTo(s, sep) ==
    IF s = <<>> \/ Head(s) = sep THEN <<>>
    ELSE <<Head(s)>> \o UpTo(Tail(s), sep)

\* filename.split('_'): the segments between separators, empty ones kept
RECURSIVE Split(_, _)
Split(s, sep) ==
    LET first == UpTo(s, sep)
    IN  IF Len(first) = Len(s) THEN <<first>>
        ELSE <<first>> \o Split(SubSeq(s, Len(first) + 2, Len(s)), sep)

\* n written with exactly w decimal digits (zero padded)
RECURSIVE Pad(_, _)
Pad(n, w) ==
    IF w = 0 THEN <<>> ELSE Pad(n \div 10, w - 1) \o <<DigitChar(n % 10)>>

----------------------------------------------------------------------------
(* Calendar arithmetic (datetime.date ordinals)                            *)

IsLeap(y) == y % 4 = 0 /\ (y % 100 # 0 \/ y % 400 = 0)

DaysInMonth(y, m) ==
    IF m = 2 THEN (IF IsLeap(y) THEN 29 ELSE 28)
    ELSE IF m \in {4, 6, 9, 11} THEN 30 ELSE 31

DaysBeforeYear(y) ==
    (y - 1) * 365 + (y - 1) \div 4 - (y - 1) \div 100 + (y - 1) \div 400

RECURSIVE DaysBeforeMonth(_, _)
DaysBeforeMonth(y, m) ==
    IF m = 1 THEN 0 ELSE DaysBeforeMonth(y, m - 1) + DaysInMonth(y, m - 1)

Ymd2Ord(y, m, d) == DaysBeforeYear(y) + DaysBeforeMonth(y, m) + d

\* the year, month and day of an ordinal day
\* (datetime._ord2ymd: 400-, 100-, 4- and 1-year cycles)
OrdYear(n) ==
    LET r400 == (n - 1) % 146097
        n100 == r400 \div 36524
        r100 == r400 % 36524
        r4 == r100 % 1461
        n1 == r4 \div 365
        y == ((n - 1) \div 146097) * 400 + n100 * 100 + (r100 \div 1461) * 4 + n1
    IN  IF n1 = 4 \/ n100 = 4 THEN y ELSE y + 1

OrdMonth(n) ==
    LET y == OrdYear(n)
        k == n - DaysBeforeYear(y)
    IN  CHOOSE m \in 1..12 :
            DaysBeforeMonth(y, m) < k
            /\ k <= DaysBeforeMonth(y, m) + DaysInMonth(y, m)

OrdDay(n) ==
    LET y == OrdYear(n)
    IN  n - DaysBeforeYear(y) - DaysBeforeMonth(y, OrdMonth(n))

----------------------------------------------------------------------------
(* datetime values: <<ordinal day, second of day, microsecond>>            *)

SecondsPerDay == 24 * 60 * 60

MkDt(y, m, d, hh, mi, ss, us) == <<Ymd2Ord(y, m, d), hh * 3600 + mi * 60 + ss, us>>

\* a < b on naive datetimes
DtLess(a, b) ==
    \/ a[1] < b[1]
    \/ a[1] = b[1] /\ a[2] < b[2]
    \/ a[1] = b[1] /\ a[2] = b[2] /\ a[3] < b[3]

\* dt - datetime.timedelta(seconds=secs), for 0 <= secs <= 86400
DtMinus(dt, secs) ==
    IF dt[2] >= secs THEN <<dt[1], dt[2] - secs, dt[3]>>
    ELSE <<dt[1] - 1, dt[2] + SecondsPerDay - secs, dt[3]>>

\* dt advanced by secs seconds and us microseconds
DtPlus(dt, secs, us) ==
    LET u == dt[3] + us
        s == dt[2] + secs + u \div 1000000
    IN  <<dt[1] + s \div SecondsPerDay, s % SecondsPerDay, u % 1000000>>

\* dt.strftime("%Y%m%d%H%M%S")
Strftime(dt) ==
    Pad(OrdYear(dt[1]), 4) \o Pad(OrdMonth(dt[1]), 2) \o Pad(OrdDay(dt[1]), 2)
    \o Pad(dt[2] \div 3600, 2) \o Pad((dt[2] % 3600) \div 60, 2)
    \o Pad(dt[2] % 60, 2)

(* datetime.strptime(s, "%Y%m%d%H%M%S").  The format compiles to the       *)
(* regular expression                                                      *)
(*   (\d\d\d\d)(1[0-2]|0[1-9]|[1-9])(3[0-1]|[1-2]\d|0[1-9]|[1-9]| [1-9])   *)
(*   (2[0-3]|[0-1]\d|\d)([0-5]\d|\d)(6[0-1]|[0-5]\d|\d)                    *)
(* whose first match (alternatives tried in order, with backtracking) must *)
(* cover the whole string, and whose fields must then form a valid date    *)
(* and time.  Fields are numbered 1 (year) to 6 (second).                  *)

D19 == Digits \ {"0"}

\* characters a b match a two-character alternative of field k
ReTwo(k, a, b) ==
    CASE k = 2 -> \/ a = "1" /\ b \in {"0", "1", "2"}
                  \/ a = "0" /\ b \in D19
      [] k = 3 -> \/ a = "3" /\ b \in {"0", "1"}
                  \/ a \in {"1", "2"} /\ b \in Digits
                  \/ a = "0" /\ b \in D19
                  \/ a = " " /\ b \in D19
      [] k = 4 -> \/ a = "2" /\ b \in {"0", "1", "2", "3"}
                  \/ a \in {"0", "1"} /\ b \in Digits
      [] k = 5 -> a \in {"0", "1", "2", "3", "4", "5"} /\ b \in Digits
      [] k = 6 -> \/ a = "6" /\ b \in {"0", "1"}
                  \/ a \in {"0", "1", "2", "3", "4", "5"} /\ b \in Digits

\* character a matches the one-character alternative of field k
ReOne(k, a) == IF k \in {2, 3} THEN a \in D19 ELSE a \in Digits

ReVal2(a, b) == (IF a = " " THEN 0 ELSE DigitVal(a) * 10) + DigitVal(b)

NoMatch == [ok |-> FALSE, end |-> 0, vals |-> <<>>]

RECURSIVE ReMatch(_, _, _)
ReMatch(s, p, k) ==
    IF k > 6 THEN [ok |-> TRUE, end |-> p, vals |-> <<>>]
    ELSE IF k = 1 THEN
        IF p + 3 <= Len(s) /\ \A i \in p..(p + 3) : s[i] \in Digits
        THEN LET r == ReMatch(s, p + 4, 2)
                 y == DigitVal(s[p]) * 1000 + DigitVal(s[p + 1]) * 100
                      + DigitVal(s[p + 2]) * 10 + DigitVal(s[p + 3])
             IN  IF r.ok THEN [r EXCEPT !.vals = <<y>> \o @] ELSE NoMatch
        ELSE NoMatch
    ELSE
        LET two == p + 1 <= Len(s) /\ ReTwo(k, s[p], s[p + 1])
            one == p <= Len(s) /\ ReOne(k, s[p])
            r2 == ReMatch(s, p + 2, k + 1)
            r1 == ReMatch(s, p + 1, k + 1)
        IN  IF two /\ r2.ok
            THEN [r2 EXCEPT !.vals = <<ReVal2(s[p], s[p + 1])>> \o @]
            ELSE IF one /\ r1.ok
            THEN [r1 EXCEPT !.vals = <<DigitVal(s[p])>> \o @]
            ELSE NoMatch

\* [ok |-> parsed without ValueError, dt |-> the datetime]
Strptime(s) ==
    LET r == ReMatch(s, 1, 1)
        v == r.vals
    IN  IF /\ r.ok
           /\ r.end = Len(s) + 1            \* else "unconverted data remains"
           /\ v[1] >= 1                     \* datetime.MINYEAR
           /\ v[3] <= DaysInMonth(v[1], v[2])
           /\ v[6] <= 59                    \* datetime takes no leap second
        THEN [ok |-> TRUE, dt |-> MkDt(v[1], v[2], v[3], v[4], v[5], v[6], 0)]
        ELSE [ok |-> FALSE, dt |-> <<0, 0, 0>>]

----------------------------------------------------------------------------
(* The media resolver (pytubefix): what YouTube(url) yields                *)

\* A stream: itag, progressive (video and audio combined), type ("video" or
\* "audio") and resolution label; an audio stream has no resolution.
NoRes == <<>>
R1080 == <<"1", "0", "8", "0", "p">>
R720 == <<"7", "2", "0", "p">>
R360 == <<"3", "6", "0", "p">>

Stream(t, prog, ty, r) == [itag |-> t, progressive |-> prog, type |-> ty, res |-> r]

S22 == Stream(22, TRUE, "video", R720)
S18 == Stream(18, TRUE, "video", R360)
S43 == Stream(43, TRUE, "video", R360)
S137 == Stream(137, FALSE, "video", R1080)
S136 == Stream(136, FALSE, "video", R720)
S140 == Stream(140, FALSE, "audio", NoRes)

\* An exception: its class and its message (a sequence of text fragments).
Exc(c, m) == [cls |-> c, msg |-> m]
NoExc == Exc("none", <<>>)
VideoUnavailable == Exc("VideoUnavailable", <<"video is unavailable">>)
RegexMatchError == Exc("RegexMatchError", <<"regex_search: could not find match">>)
ResolverError == Exc("URLError", <<"urlopen error">>)
ResolverErrors == {VideoUnavailable, RegexMatchError, ResolverError}

\* A resolved video: the exception the resolver raises (or NoExc), the title
\* and the streams in the order the resolver lists them.
Video(e, t, ss) == [err |-> e, title |-> t, streams |-> ss]

\* int("".join(filter(str.isdigit, resolution)))
RECURSIVE ResNum(_)
ResNum(r) ==
    IF r = <<>> THEN 0
    ELSE LET init == SubSeq(r, 1, Len(r) - 1)
             c == r[Len(r)]
         IN  IF c \in Digits THEN ResNum(init) * 10 + DigitVal(c)
             ELSE ResNum(init)

FilterNothing(ss) == ss

\* StreamQuery.filter(progressive=True)
FilterProgressive(ss) == SelectSeq(ss, LAMBDA x : x.progressive)

\* StreamQuery.filter(type="video", adaptive=True)
FilterVideoOnly(ss) == SelectSeq(ss, LAMBDA x : x.type = "video" /\ ~x.progressive)

\* sorted(..., key=resolution number): a stable insertion of x into sorted ss
RECURSIVE InsertByRes(_, _)
InsertByRes(ss, x) ==
    IF ss = <<>> THEN <<x>>
    ELSE LET l == ss[Len(ss)]
         IN  IF ResNum(l.res) <= ResNum(x.res) THEN Append(ss, x)
             ELSE Append(InsertByRes(SubSeq(ss, 1, Len(ss) - 1), x), l)

RECURSIVE SortByRes(_)
SortByRes(ss) ==
    IF ss = <<>> THEN <<>>
    ELSE InsertByRes(SortByRes(SubSeq(ss, 1, Len(ss) - 1)), ss[Len(ss)])

\* StreamQuery.order_by('resolution'): streams without the attribute dropped,
\* the rest sorted ascending by the number in the label
OrderByResolution(ss) == SortByRes(SelectSeq(ss, LAMBDA x : x.res # NoRes))

\* StreamQuery.desc()
RECURSIVE Desc(_)
Desc(ss) == IF ss = <<>> THEN <<>> ELSE Desc(Tail(ss)) \o <<Head(ss)>>

\* the progressive streams, highest resolution first            (or.py l.35)
ProgressiveStreams(ss) == Desc(OrderByResolution(FilterProgressive(ss)))

\* the first stream of ps labelled r, or <<>>                (or.py l.37-41)
RECURSIVE FirstWithRes(_, _)
FirstWithRes(ps, r) ==
    IF ps = <<>> THEN <<>>
    ELSE IF Head(ps).res = r THEN <<Head(ps)>>
    ELSE FirstWithRes(Tail(ps), r)

----------------------------------------------------------------------------
(* or.py: download_youtube_video_for_streamlit, the pure part              *)

CLEANUP_DELAY_MINUTES == 5

TitleLimit == 50

None == <<>>

\* lines 37-49: [target |-> <<stream>> or None, warned |-> st.warning shown]
SelectStream(ss, r) ==
    LET ps == ProgressiveStreams(ss)
        exact == FirstWithRes(ps, r)
    IN  IF exact # None THEN [target |-> exact, warned |-> FALSE]
        ELSE IF ps # <<>> THEN [target |-> <<Head(ps)>>, warned |-> TRUE]
        ELSE [target |-> None, warned |-> TRUE]

NoProgressive ==
    Exc("ValueError",
        <<"No progressive streams found for this video at any resolution.">>)

\* str.strip() on the only whitespace a title holds here, the space
RECURSIVE LStrip(_)
LStrip(t) == IF t # <<>> /\ Head(t) = " " THEN LStrip(Tail(t)) ELSE t

RECURSIVE RStrip(_)
RStrip(t) ==
    IF t # <<>> /\ t[Len(t)] = " " THEN RStrip(SubSeq(t, 1, Len(t) - 1)) ELSE t

\* lines 53-54
SafeTitle(title) ==
    LET kept == SelectSeq(title, LAMBDA c : IsAlnum(c) \/ c \in {" ", ".", "_"})
        stripped == RStrip(LStrip(kept))
        under == [i \in 1..Len(stripped) |->
                     IF stripped[i] = " " THEN "_" ELSE stripped[i]]
    IN  SubSeq(under, 1, IF Len(under) < TitleLimit THEN Len(under) ELSE TitleLimit)

FileNameNoUid(title, res, now, uid) ==
    SafeTitle(title) \o <<"_">> \o res \o <<"_">> \o Strftime(now)
    \o <<".", "m", "p", "4">>

\* line 58
FileName(title, res, now, uid) ==
    SafeTitle(title) \o <<"_">> \o res \o <<"_">> \o Strftime(now) \o <<"_">>
    \o uid \o <<".", "m", "p", "4">>

ReraiseSilent(e) == [raised |-> e, shown |-> "nothing"]

ReraiseWrapped(e) ==
    [raised |-> Exc("Exception", <<"An unexpected error occurred: ">> \o e.msg),
     shown |-> "error: unexpected during download"]

\* lines 72-80: the exception is shown with st.error and raised again
Reraise(e) ==
    [raised |-> e,
     shown |-> IF e.cls = "VideoUnavailable" THEN "error: unavailable or private"
               ELSE IF e.cls = "RegexMatchError" THEN "error: invalid URL"
               ELSE "error: unexpected during download"]

\* lines 32-59: resolve the video v, select the stream for resolution r and
\* name the file; exc is the exception that leaves the try block, if any
Prepare(v, r, now, uid) ==
    LET sel == SelectStream(v.streams, r)
    IN  IF v.err # NoExc
        THEN [exc |-> v.err, warned |-> FALSE, target |-> None, file_name |-> <<>>]
        ELSE IF sel.target = None
        THEN [exc |-> NoProgressive, warned |-> TRUE, target |-> None,
              file_name |-> <<>>]
        ELSE [exc |-> NoExc, warned |-> sel.warned, target |-> sel.target,
              file_name |-> FileName(v.title, sel.target[1].res, now, uid)]

\* lines 183-189: the button handler's except clauses; both clear
\* st.session_state.download_info, the second one shows the error again
HandlerCatch(e) ==
    IF e.cls \in {"VideoUnavailable", "RegexMatchError", "ValueError"}
    THEN [info |-> None, shown |-> {}]
    ELSE [info |-> None, shown |-> {"error: unhandled during processing"}]

CaughtTyped(e) == e.cls \in {"VideoUnavailable", "RegexMatchError", "ValueError"}

\* lines 183 and 187: whether one of the handler's except clauses takes e;
\* the second one is `except Exception`
Caught(e) ==
    \/ e.cls \in {"VideoUnavailable", "RegexMatchError", "ValueError"}
    \/ e.cls # "none"

----------------------------------------------------------------------------
(* or.py: the download directory, the sessions and the clock               *)

Sessions == {1, 2}

\* bounds of the model
MaxTicks == 1
MaxRuns == 2
MaxDownloads == 2

\* A directory entry: kind "file" or "dir"; mtime is the datetime
\* fromtimestamp(os.path.getmtime(..)) yields; locked means os.remove raises
\* PermissionError; writing means a download still has the file open.
Entry(n, k, mt, lk) == [name |-> n, kind |-> k, mtime |-> mt, locked |-> lk, writing |-> FALSE]

NameVideo == <<"v", "i", "d", "e", "o", ".", "m", "p", "4">>
NameMyVideo ==
    <<"M", "y", "V", "i", "d", "e", "o", "_", "7", "2", "0", "p", "_",
      "2", "0", "2", "4", "0", "1", "0", "1", "1", "2", "0", "0", "0", "0", "_",
      "a", "b", "1", "2", "c", "d", "3", "4", ".", "m", "p", "4">>
NameOld ==
    <<"O", "l", "d", "_", "3", "6", "0", "p", "_",
      "2", "0", "2", "4", "0", "1", "0", "1", "1", "1", "0", "0", "0", "0", "_",
      "0", "f", "0", "f", "0", "f", "0", "f", ".", "m", "p", "4">>
NameEdge ==
    <<"E", "d", "g", "e", "_", "3", "6", "0", "p", "_",
      "2", "0", "2", "4", "0", "1", "0", "1", "1", "2", "0", "1", "0", "0", "_",
      "1", "e", "1", "e", "1", "e", "1", "e", ".", "m", "p", "4">>
NameABCD == <<"a", "_", "b", "_", "c", "_", "d", ".", "m", "p", "4">>
NameTmp == <<"t", "m", "p">>

EVideo == Entry(NameVideo, "file", MkDt(2024, 1, 1, 11, 0, 0, 250000), FALSE)
EMyVideo == Entry(NameMyVideo, "file", MkDt(2024, 1, 1, 12, 0, 7, 500000), FALSE)
EOld == Entry(NameOld, "file", MkDt(2024, 1, 1, 11, 0, 9, 0), TRUE)
EEdge == Entry(NameEdge, "file", MkDt(2024, 1, 1, 12, 1, 9, 0), FALSE)
EABCD == Entry(NameABCD, "file", MkDt(2024, 1, 1, 12, 1, 0, 500000), FALSE)
ETmp == Entry(NameTmp, "dir", MkDt(2024, 1, 1, 10, 0, 0, 0), FALSE)

\* the directories a run may find, in os.listdir order
InitDirs == {<<EOld, EMyVideo, EVideo>>, <<EABCD, EEdge, ETmp>>}

\* the time at which the model starts
StartClock == MkDt(2024, 1, 1, 12, 6, 0, 0)

\* how far the clock may advance in one step: <<seconds, microseconds>>
ClockSteps == {<<360, 500000>>}

\* uuid.uuid4().hex[:8]
UIDs == {<<"a", "b", "1", "2", "c", "d", "3", "4">>}

TitleMyVideo == <<"M", "y", " ", "V", "i", "d", "e", "o">>
TitleClip == <<"C", "l", "i", "p">>

VidOk == Video(NoExc, TitleMyVideo, <<S137, S22, S18, S140>>)
VidNoProg == Video(NoExc, TitleClip, <<S137, S140>>)

\* what the URL typed into the text input resolves to
Videos == {VidOk, VidNoProg} \cup {Video(e, <<>>, <<>>) : e \in ResolverErrors}

\* the selectbox choices a session makes
ResChoices == {R720, R1080}

VARIABLES
    clock,          \* the system clock, what datetime.datetime.now() returns
    ticks,          \* how many times the clock advanced
    dir,            \* the entries of DOWNLOAD_DIR, in os.listdir order
    runs,           \* script runs started so far
    downloads,      \* download requests made so far
    pc,             \* per session: where its script run stands
    now,            \* per session: `now` of its cleanup_old_files (line 88)
    listing,        \* per session: the os.listdir entries still to examine
    cleaned_count,  \* per session: cleaned_count (line 93)
    download_info,  \* per session: st.session_state.download_info
    dl,             \* per session: the download in progress, or None
    last,           \* history: the entry the sweep examined last
    removed,        \* history: files the session's current sweep removed
    swept,          \* history: the run's cleanup_old_files has returned
    repeat,         \* history: the run's sweep repeats the session's previous
                    \* completed one: same `now`, no file created in between
    added,          \* history: a file was created since the run began
    shown,          \* history: what the run showed with st.error, st.info
                    \* and st.success (the st.warning lines are left out)
    outcome,        \* history: what the run's download request raised
    info_before,    \* history: download_info was set when the run's request
                    \* failed
    arg,            \* a direct call of one of the two functions: its arguments
    ret             \* ... and what it returned or raised

codeVars == <<clock, ticks, dir, runs, downloads, pc, now, listing,
              cleaned_count, download_info, dl>>
histVars == <<last, removed, swept, repeat, added, shown, outcome, info_before>>
vars == <<clock, ticks, dir, runs, downloads, pc, now, listing,
          cleaned_count, download_info, dl,
          last, removed, swept, repeat, added, shown, outcome, info_before,
          arg, ret>>
callVars == <<arg, ret>>

Names(d) == [i \in 1..Len(d) |-> d[i].name]
Has(d, f) == \E i \in 1..Len(d) : d[i].name = f
Get(d, f) == d[CHOOSE i \in 1..Len(d) : d[i].name = f]
Without(d, f) == SelectSeq(d, LAMBDA e : e.name # f)

\* os.path.isfile(file_path)                                      (line 98)
IsFile(d, f) == Has(d, f) /\ Get(d, f).kind = "file"

\* os.path.exists(file_path)                            (lines 63, 155, 198)
Exists(d, f) == Has(d, f)

\* cutoff_time of a sweep whose `now` is t                         (line 89)
Cutoff(t) == DtMinus(t, CLEANUP_DELAY_MINUTES * 60)

TsFromNameNoFallback(f) ==
    LET parts == Split(f, "_")
        r == Strptime(parts[Len(parts) - 1])
    IN  IF Len(parts) >= 4 /\ r.ok THEN [how |-> "name", ts |-> <<r.dt>>]
        ELSE [how |-> "none", ts |-> None]

\* lines 99-107: the timestamp the name yields; how is "name" when it
\* parsed, "none" when the name was not tried (file_timestamp stays None)
\* and "raise" when strptime raised and the except clause runs
TsFromName(f) ==
    LET parts == Split(f, "_")
        r == Strptime(parts[Len(parts) - 1])
    IN  IF Len(parts) >= 4
        THEN IF r.ok THEN [how |-> "name", ts |-> <<r.dt>>]
             ELSE [how |-> "raise", ts |-> None]
        ELSE [how |-> "none", ts |-> None]

ExpiredOrEqual(ts, cutoff) == ts # None /\ ~DtLess(cutoff, ts[1])

\* line 112: if file_timestamp and file_timestamp < cutoff_time
Expired(ts, cutoff) == ts # None /\ DtLess(ts[1], cutoff)

NoEntry == [name |-> <<>>, isfile |-> FALSE, how |-> "none", ts |-> None,
            mtime |-> None, res |-> "none"]

NoDl == [file_name |-> <<>>, title |-> <<>>, res |-> <<>>]

NoArg == [video |-> Video(NoExc, <<>>, <<>>), resolution |-> NoRes]
NoRet == [fn |-> "none"]

\* every session idle, nothing downloaded, no call made
Start ==
    /\ clock = StartClock
    /\ ticks = 0
    /\ runs = 0
    /\ downloads = 0
    /\ pc = [s \in Sessions |-> "idle"]
    /\ now = [s \in Sessions |-> StartClock]
    /\ listing = [s \in Sessions |-> <<>>]
    /\ cleaned_count = [s \in Sessions |-> 0]
    /\ download_info = [s \in Sessions |-> None]
    /\ dl = [s \in Sessions |-> NoDl]
    /\ last = [s \in Sessions |-> NoEntry]
    /\ removed = [s \in Sessions |-> 0]
    /\ swept = [s \in Sessions |-> FALSE]
    /\ repeat = [s \in Sessions |-> FALSE]
    /\ added = [s \in Sessions |-> FALSE]
    /\ shown = [s \in Sessions |-> {}]
    /\ outcome = [s \in Sessions |-> NoExc]
    /\ info_before = [s \in Sessions |-> FALSE]
    /\ ret = NoRet

Init ==
    /\ Start
    /\ dir \in InitDirs
    /\ arg = NoArg

----------------------------------------------------------------------------
(* or.py: one run of the script, step by step.  A step is one access to    *)
(* the shared directory together with the code that follows it up to the   *)
(* next access, so that two sessions interleave as two script threads do.  *)

\* the first statement of the script after the page configuration is the
\* call of cleanup_old_files                                      (line 127)
ScriptEntryLate == "ui"
ScriptEntry == "sweep"

\* the for loop goes on with the entries after the first        (line 96)
RestBreak(l) == <<>>
Rest(l) == Tail(l)

\* os.remove raised: the except clause reports it and the loop goes on
\*                                                          (lines 117-118)
AfterRemoveErrorRaise == "crashed"
AfterRemoveError == "sweep"

\* cleaned_count after the try block of lines 113-118; ok is whether
\* os.remove returned
CountAlways(c, ok) == c + 1
Count(c, ok) == IF ok THEN c + 1 ELSE c

\* a user interaction reruns the script: lines 88-96, up to os.listdir
RunStart(s) ==
    /\ UNCHANGED callVars
    /\ pc[s] \in {"idle", "crashed"}
    /\ runs < MaxRuns
    /\ runs' = runs + 1
    /\ now' = [now EXCEPT ![s] = clock]
    /\ listing' = [listing EXCEPT ![s] = Names(dir)]
    /\ cleaned_count' = [cleaned_count EXCEPT ![s] = 0]
    /\ pc' = [pc EXCEPT ![s] = ScriptEntry]
    /\ last' = [last EXCEPT ![s] = NoEntry]
    /\ removed' = [removed EXCEPT ![s] = 0]
    /\ swept' = [swept EXCEPT ![s] = FALSE]
    /\ repeat' = [repeat EXCEPT ![s] = swept[s] /\ now[s] = clock /\ ~added[s]]
    /\ added' = [added EXCEPT ![s] = FALSE]
    /\ shown' = [shown EXCEPT ![s] = {}]
    /\ outcome' = [outcome EXCEPT ![s] = NoExc]
    /\ info_before' = [info_before EXCEPT ![s] = FALSE]
    /\ UNCHANGED <<clock, ticks, dir, downloads, download_info, dl>>

\* lines 97-112 for the next entry: isfile, the timestamp of the name, and
\* the comparison when the name gave one
SweepExamine(s) ==
    /\ UNCHANGED callVars
    /\ pc[s] = "sweep"
    /\ listing[s] # <<>>
    /\ LET f == Head(listing[s])
           t == TsFromName(f)
           e == [name |-> f, isfile |-> TRUE, how |-> t.how, ts |-> t.ts,
                 mtime |-> <<Get(dir, f).mtime>>, res |-> "pending"]
       IN  IF ~IsFile(dir, f)
           THEN /\ last' = [last EXCEPT ![s] = [NoEntry EXCEPT !.name = f, !.res = "skipped"]]
                /\ listing' = [listing EXCEPT ![s] = Rest(@)]
                /\ pc' = pc
           ELSE IF t.how = "raise"
           THEN /\ last' = [last EXCEPT ![s] = e]
                /\ pc' = [pc EXCEPT ![s] = "getmtime"]
                /\ listing' = listing
           ELSE IF Expired(t.ts, Cutoff(now[s]))
           THEN /\ last' = [last EXCEPT ![s] = e]
                /\ pc' = [pc EXCEPT ![s] = "remove"]
                /\ listing' = listing
           ELSE /\ last' = [last EXCEPT ![s] = [e EXCEPT !.res = "kept"]]
                /\ listing' = [listing EXCEPT ![s] = Rest(@)]
                /\ pc' = pc
    /\ UNCHANGED <<clock, ticks, dir, runs, downloads, now, cleaned_count,
                   download_info, dl, removed, swept, repeat, added, shown, outcome, info_before>>

\* lines 107-112: strptime raised; the except clause reads the modification
\* time.  A file that is gone by now makes os.path.getmtime raise inside the
\* except clause, which nothing catches: the script run ends there.
SweepGetMTime(s) ==
    /\ UNCHANGED callVars
    /\ pc[s] = "getmtime"
    /\ LET f == Head(listing[s])
           mt == <<Get(dir, f).mtime>>
       IN  IF ~Has(dir, f)
           THEN /\ pc' = [pc EXCEPT ![s] = "crashed"]
                /\ last' = [last EXCEPT ![s] = NoEntry]
                /\ listing' = [listing EXCEPT ![s] = <<>>]
                /\ shown' = [shown EXCEPT ![s] = {}]
           ELSE /\ shown' = shown        \* line 110 is an st.sidebar.warning
                /\ IF Expired(mt, Cutoff(now[s]))
                   THEN /\ last' = [last EXCEPT ![s].how = "mtime", ![s].ts = mt,
                                                ![s].mtime = mt]
                        /\ pc' = [pc EXCEPT ![s] = "remove"]
                        /\ listing' = listing
                   ELSE /\ last' = [last EXCEPT ![s].how = "mtime", ![s].ts = mt,
                                                ![s].mtime = mt, ![s].res = "kept"]
                        /\ pc' = [pc EXCEPT ![s] = "sweep"]
                        /\ listing' = [listing EXCEPT ![s] = Rest(@)]
    /\ UNCHANGED <<clock, ticks, dir, runs, downloads, now, cleaned_count,
                   download_info, dl, removed, swept, repeat, added, outcome, info_before>>

\* lines 113-118: os.remove of an expired file
SweepRemove(s) ==
    /\ UNCHANGED callVars
    /\ pc[s] = "remove"
    /\ LET f == Head(listing[s])
           ok == Has(dir, f) /\ ~Get(dir, f).locked
       IN  /\ dir' = IF ok THEN Without(dir, f) ELSE dir
           /\ cleaned_count' = [cleaned_count EXCEPT ![s] = Count(@, ok)]
           /\ removed' = [removed EXCEPT ![s] = @ + Len(dir) - Len(dir')]
           /\ last' = [last EXCEPT ![s].res = IF ok THEN "removed" ELSE "failed"]
           /\ shown' = [shown EXCEPT ![s] =
                           @ \cup IF ok THEN {"info: cleaned"} ELSE {"error: deleting"}]
           /\ pc' = [pc EXCEPT ![s] = IF ok THEN "sweep" ELSE AfterRemoveError]
           /\ listing' = [listing EXCEPT ![s] = Rest(@)]
    /\ UNCHANGED <<clock, ticks, runs, downloads, now, download_info, dl,
                   swept, repeat, added, outcome, info_before>>

\* lines 120-124: the loop is over; cleanup_old_files reports and returns
CleanupDone(s) ==
    /\ UNCHANGED callVars
    /\ pc[s] = "sweep"
    /\ listing[s] = <<>>
    /\ swept' = [swept EXCEPT ![s] = TRUE]
    /\ shown' = [shown EXCEPT ![s] =
                    @ \cup IF cleaned_count[s] > 0 THEN {"success: cleaned up"}
                           ELSE {"info: no old files"}]
    /\ pc' = [pc EXCEPT ![s] = "ui"]
    /\ UNCHANGED <<clock, ticks, dir, runs, downloads, now, listing,
                   cleaned_count, download_info, dl, last, removed, repeat,
                   added, outcome, info_before>>

\* what target_stream.download may raise in mid-transfer          (line 65)
DownloadErrors == {Exc("HTTPError", <<"HTTP Error 403: Forbidden">>)}

Info(d) == <<[file_path |-> d.file_name, file_name |-> d.file_name,
              video_title |-> d.title, resolution |-> d.res]>>

\* line 144: the button was not pressed in this run
NoClick(s) ==
    /\ UNCHANGED callVars
    /\ pc[s] = "ui"
    /\ pc' = [pc EXCEPT ![s] = "serve"]
    /\ UNCHANGED <<clock, ticks, dir, runs, downloads, now, listing,
                   cleaned_count, download_info, dl>>
    /\ UNCHANGED histVars

\* lines 144-145, 190-191: the button was pressed with no URL typed in
ClickEmpty(s) ==
    /\ UNCHANGED callVars
    /\ pc[s] = "ui"
    /\ pc' = [pc EXCEPT ![s] = "serve"]
    /\ UNCHANGED <<clock, ticks, dir, runs, downloads, now, listing,
                   cleaned_count, download_info, dl>>
    /\ UNCHANGED histVars

\* lines 144-153 and 31-59: the button was pressed with a URL; the handler
\* calls download_youtube_video_for_streamlit, which resolves the video,
\* selects the stream and names the file.  An exception is shown, raised
\* again (72-80) and caught by the handler (183-189).
ClickDownload(s) ==
    /\ UNCHANGED callVars
    /\ pc[s] = "ui"
    /\ downloads < MaxDownloads
    /\ downloads' = downloads + 1
    /\ \E v \in Videos, r \in ResChoices, u \in UIDs :
         LET p == Prepare(v, r, clock, u)
             rr == Reraise(p.exc)
             h == HandlerCatch(rr.raised)
         IN  IF p.exc # NoExc
             THEN /\ outcome' = [outcome EXCEPT ![s] = rr.raised]
                  /\ info_before' = [info_before EXCEPT ![s] = download_info[s] # None]
                  /\ shown' = [shown EXCEPT ![s] = @ \cup {rr.shown} \cup h.shown]
                  /\ download_info' = [download_info EXCEPT ![s] =
                                           IF Caught(rr.raised) THEN h.info ELSE @]
                  /\ dl' = dl
                  /\ pc' = [pc EXCEPT ![s] =
                               IF Caught(rr.raised) THEN "serve" ELSE "crashed"]
             ELSE /\ dl' = [dl EXCEPT ![s] = [file_name |-> p.file_name,
                                              title |-> v.title,
                                              res |-> p.target[1].res]]
                  /\ pc' = [pc EXCEPT ![s] = "dl_begin"]
                  /\ UNCHANGED <<outcome, info_before, download_info, shown>>
    /\ UNCHANGED <<clock, ticks, dir, runs, now, listing, cleaned_count,
                   last, removed, swept, repeat, added>>

\* lines 63-68: the file is created unless the path exists already; in that
\* case the function returns at once and the handler (155-166) stores the
\* download information
DlBegin(s) ==
    /\ UNCHANGED callVars
    /\ pc[s] = "dl_begin"
    /\ LET f == dl[s].file_name
       IN  IF ~Exists(dir, f)
           THEN /\ dir' = Append(dir, [Entry(f, "file", clock, FALSE)
                                          EXCEPT !.writing = TRUE])
                /\ added' = [x \in Sessions |-> TRUE]
                /\ repeat' = [x \in Sessions |-> FALSE]
                /\ shown' = [shown EXCEPT ![s] = @ \cup {"info: downloading"}]
                /\ pc' = [pc EXCEPT ![s] = "dl_run"]
                /\ UNCHANGED <<download_info, dl>>
           ELSE /\ shown' = [shown EXCEPT ![s] = @ \cup {"info: already exists"}]
                /\ download_info' = [download_info EXCEPT ![s] = Info(dl[s])]
                /\ dl' = [dl EXCEPT ![s] = NoDl]
                /\ pc' = [pc EXCEPT ![s] = "serve"]
                /\ UNCHANGED <<dir, added, repeat>>
    /\ UNCHANGED <<clock, ticks, runs, downloads, now, listing, cleaned_count,
                   last, removed, swept, outcome, info_before>>

\* lines 65-70 and 155-181: the transfer ends and the file is closed (a file
\* unlinked meanwhile stays unlinked); the handler stores the download
\* information if the path exists
DlFinish(s) ==
    /\ UNCHANGED callVars
    /\ pc[s] = "dl_run"
    /\ LET f == dl[s].file_name
       IN  /\ dir' = [i \in 1..Len(dir) |->
                         IF dir[i].name = f
                         THEN [dir[i] EXCEPT !.writing = FALSE, !.mtime = clock]
                         ELSE dir[i]]
           /\ IF Exists(dir, f)
              THEN /\ download_info' = [download_info EXCEPT ![s] = Info(dl[s])]
                   /\ shown' = [shown EXCEPT ![s] = @ \cup {"success: downloaded"}]
              ELSE /\ download_info' = [download_info EXCEPT ![s] = None]
                   /\ shown' = [shown EXCEPT ![s] =
                                   @ \cup {"success: downloaded", "error: file was not created"}]
    /\ dl' = [dl EXCEPT ![s] = NoDl]
    /\ pc' = [pc EXCEPT ![s] = "serve"]
    /\ UNCHANGED <<clock, ticks, runs, downloads, now, listing, cleaned_count,
                   last, removed, swept, repeat, added, outcome, info_before>>

\* lines 65, 78-80 and 187-189: the transfer raises; what was written stays
DlFail(s) ==
    /\ UNCHANGED callVars
    /\ pc[s] = "dl_run"
    /\ \E e \in DownloadErrors :
         LET rr == Reraise(e)
             h == HandlerCatch(rr.raised)
         IN  /\ outcome' = [outcome EXCEPT ![s] = rr.raised]
             /\ info_before' = [info_before EXCEPT ![s] = download_info[s] # None]
             /\ shown' = [shown EXCEPT ![s] = @ \cup {rr.shown} \cup h.shown]
             /\ download_info' = [download_info EXCEPT ![s] =
                                      IF Caught(rr.raised) THEN h.info ELSE @]
             /\ pc' = [pc EXCEPT ![s] =
                          IF Caught(rr.raised) THEN "serve" ELSE "crashed"]
    /\ dir' = [i \in 1..Len(dir) |->
                  IF dir[i].name = dl[s].file_name
                  THEN [dir[i] EXCEPT !.writing = FALSE, !.mtime = clock]
                  ELSE dir[i]]
    /\ dl' = [dl EXCEPT ![s] = NoDl]
    /\ UNCHANGED <<clock, ticks, runs, downloads, now, listing, cleaned_count,
                   last, removed, swept, repeat, added>>

\* the script run of s is over: what the history says of the run is dropped
EndOfRun(s) ==
    /\ cleaned_count' = [cleaned_count EXCEPT ![s] = 0]
    /\ last' = [last EXCEPT ![s] = NoEntry]
    /\ removed' = [removed EXCEPT ![s] = 0]
    /\ shown' = [shown EXCEPT ![s] = {}]
    /\ outcome' = [outcome EXCEPT ![s] = NoExc]
    /\ info_before' = [info_before EXCEPT ![s] = FALSE]

\* lines 196-198, 208-209: the download button block up to os.path.exists;
\* with no download information, or with the file gone, the script ends
Serve(s) ==
    /\ UNCHANGED callVars
    /\ pc[s] = "serve"
    /\ IF download_info[s] # None /\ Exists(dir, download_info[s][1].file_path)
       THEN /\ pc' = [pc EXCEPT ![s] = "open"]
            /\ UNCHANGED <<cleaned_count, last, removed, shown, outcome, info_before>>
       ELSE /\ pc' = [pc EXCEPT ![s] = "idle"]
            /\ EndOfRun(s)
    /\ UNCHANGED <<clock, ticks, dir, runs, downloads, now, listing,
                   download_info, dl, swept, repeat, added>>

\* lines 199-207: open(info["file_path"], "rb") and the download button; a
\* file that is gone by now makes open raise, which ends the script run
ServeOpen(s) ==
    /\ UNCHANGED callVars
    /\ pc[s] = "open"
    /\ pc' = [pc EXCEPT ![s] = IF Exists(dir, download_info[s][1].file_path)
                               THEN "idle" ELSE "crashed"]
    /\ EndOfRun(s)
    /\ UNCHANGED <<clock, ticks, dir, runs, downloads, now, listing,
                   download_info, dl, swept, repeat, added>>

\* time passes
Tick ==
    /\ UNCHANGED callVars
    /\ ticks < MaxTicks
    /\ ticks' = ticks + 1
    /\ \E d \in ClockSteps : clock' = DtPlus(clock, d[1], d[2])
    /\ UNCHANGED <<dir, runs, downloads, pc, now, listing, cleaned_count,
                   download_info, dl>>
    /\ UNCHANGED histVars

Next ==
    \/ Tick
    \/ \E s \in Sessions :
         \/ RunStart(s)
         \/ SweepExamine(s)
         \/ SweepGetMTime(s)
         \/ SweepRemove(s)
         \/ CleanupDone(s)
         \/ NoClick(s)
         \/ ClickEmpty(s)
         \/ ClickDownload(s)
         \/ DlBegin(s)
         \/ DlFinish(s)
         \/ DlFail(s)
         \/ Serve(s)
         \/ ServeOpen(s)

Spec == Init /\ [][Next]_vars

----------------------------------------------------------------------------
(* app.py: process_youtube_streams                                         *)

\* lines 183-188: what the function raises for an exception e of its body
Translate(e) ==
    IF e.cls = "VideoUnavailable"
    THEN Exc("ValueError", <<"The YouTube video is unavailable or private.">>)
    ELSE IF e.cls = "RegexMatchError"
    THEN Exc("ValueError", <<"Invalid YouTube URL format. Please check the URL.">>)
    ELSE Exc("Exception", <<"An unexpected error occurred: ">> \o e.msg)

NoStreams == Exc("ValueError", <<"No streams could be downloaded or processed.">>)

\* lines 61-83: streams_to_download_info, the largest progressive stream
\* and then the largest video-only stream, where there is one
StreamsToDownload(ss) ==
    LET prog == Desc(OrderByResolution(FilterProgressive(ss)))
        vo == Desc(OrderByResolution(FilterVideoOnly(ss)))
    IN  (IF prog # <<>>
         THEN <<[stream |-> Head(prog), type_label |-> "progressive (video+audio)"]>>
         ELSE <<>>)
        \o (IF vo # <<>>
            THEN <<[stream |-> Head(vo), type_label |-> "adaptive (video-only)"]>>
            ELSE <<>>)

\* lines 141-159: the entry of downloaded_file_urls for dl_info; failed is
\* whether its s.download raised
FileUrlEntry(dl_info, failed) ==
    [type |-> dl_info.type_label,
     resolution |-> IF dl_info.stream.type = "video" THEN dl_info.stream.res
                    ELSE <<"N", "/", "A">>,
     server_download_url |-> IF failed THEN "N/A - Download failed or not hosted"
                             ELSE "https://modsbots-api.streamlit.app/downloaded_videos/"]

ProcessNoCheck(v, fails) ==
    LET todo == StreamsToDownload(v.streams)
    IN  [raised |-> IF v.err # NoExc THEN Translate(v.err) ELSE NoExc,
         title |-> v.title,
         list |-> [i \in 1..Len(todo) |-> FileUrlEntry(todo[i], i \in fails)]]

\* lines 37-188 for the resolved video v; fails holds the positions in
\* streams_to_download_info whose download raises
ProcessYoutubeStreams(v, fails) ==
    LET todo == StreamsToDownload(v.streams)
        urls == [i \in 1..Len(todo) |-> FileUrlEntry(todo[i], i \in fails)]
    IN  IF v.err # NoExc
        THEN [raised |-> Translate(v.err), title |-> <<>>, list |-> <<>>]
        ELSE IF urls = <<>>
        THEN [raised |-> Translate(NoStreams), title |-> <<>>, list |-> <<>>]
        ELSE [raised |-> NoExc, title |-> v.title, list |-> urls]

\* app.py lines 196-228, the script called with a url query parameter: the
\* JSON response built from what process_youtube_streams returned or raised
ApiMode(out) ==
    IF out.raised = NoExc
    THEN [status |-> "success", video_title |-> out.title,
          downloaded_streams_info |-> out.list,
          message |-> <<"Attempted to download specified streams to server.">>]
    ELSE [status |-> "error", video_title |-> <<"N", "/", "A">>,
          downloaded_streams_info |-> <<>>,
          message |-> IF out.raised.cls = "ValueError"
                      THEN <<"Error: ">> \o out.raised.msg
                      ELSE <<"An unexpected error occurred: ">> \o out.raised.msg]

----------------------------------------------------------------------------
(* The two functions called directly, on arguments drawn from a pool       *)

\* or.py lines 25-80 run to the end by one caller on a fresh directory at
\* time t;
\* dlerr is what target_stream.download raises, or NoExc
DownloadFn(v, r, t, uid, dlerr) ==
    LET p == Prepare(v, r, t, uid)
        e == IF p.exc # NoExc THEN p.exc ELSE dlerr
    IN  [raised |-> IF e = NoExc THEN NoExc ELSE Reraise(e).raised,
         shown |-> IF e = NoExc THEN "success: downloaded" ELSE Reraise(e).shown,
         target |-> p.target,
         file_name |-> p.file_name]

\* the options of the resolution selectbox                  (or.py l.137)
Resolutions ==
    {R1080, R720, <<"4", "8", "0", "p">>, R360, <<"2", "4", "0", "p">>,
     <<"1", "4", "4", "p">>}

\* the streams a resolver answer is drawn from, in the resolver's order
StreamPool == <<S18, S137, S43, S22, S136, S140>>

Catalogs == {SelectSeq(StreamPool, LAMBDA x : x.itag \in keep) :
                keep \in SUBSET {18, 137, 43, 22, 136, 140}}

\* yt.title: empty, with a space, with characters that safe_title drops or
\* keeps ('_', '.', ' '), and longer than the 50 characters that are kept
TitleEmpty == <<>>
TitleMixed == <<" ", "a", "_", "b", ".", " ", "c", "!">>
TitleLong == [i \in 1..(TitleLimit + 2) |-> IF i = TitleLimit THEN " " ELSE "a"]
CallTitles == {TitleEmpty, TitleMyVideo, TitleMixed, TitleLong}

\* what datetime.datetime.now() returns at line 56 of a call
CallTimes ==
    {StartClock, MkDt(2024, 2, 29, 23, 59, 59, 999999),
     MkDt(2025, 10, 9, 0, 0, 0, 1)}

CallVideos ==
    {Video(NoExc, t, c) : t \in CallTitles, c \in Catalogs}
    \cup {Video(e, <<>>, <<>>) : e \in ResolverErrors}

InitCalls ==
    /\ Start
    /\ dir = <<>>
    /\ arg \in [video : CallVideos, resolution : Resolutions]

CallDownload ==
    /\ ret = NoRet
    /\ \E u \in UIDs, dlerr \in {NoExc} \cup DownloadErrors, t \in CallTimes :
         ret' = [fn |-> "download_youtube_video_for_streamlit", dlerr |-> dlerr,
                 time |-> t,
                 out |-> DownloadFn(arg.video, arg.resolution, t, u, dlerr)]
    /\ UNCHANGED <<codeVars, histVars, arg>>

CallProcess ==
    /\ ret = NoRet
    /\ \E fails \in SUBSET {1, 2} :
         ret' = [fn |-> "process_youtube_streams", fails |-> fails,
                 out |-> ProcessYoutubeStreams(arg.video, fails)]
    /\ UNCHANGED <<codeVars, histVars, arg>>

\* app.py run in API mode on the video: the response passed to st.json
CallApi ==
    /\ ret = NoRet
    /\ \E fails \in SUBSET {1, 2} :
         LET out == ProcessYoutubeStreams(arg.video, fails)
         IN  ret' = [fn |-> "api_mode", fails |-> fails, out |-> out,
                     json |-> ApiMode(out)]
    /\ UNCHANGED <<codeVars, histVars, arg>>

NextCalls == CallDownload \/ CallProcess \/ CallApi

SpecCalls == InitCalls /\ [][NextCalls]_vars

----------------------------------------------------------------------------
(* The claims                                                              *)

Segments(f) == Len(Split(f, "_"))

Noon(m) == MkDt(2024, 1, 1, 12, m, 0, 0)

\* C1: every regular file whose name has fewer than 4 '_'-separated
\* segments gets its age from its modification time, and the sweep deletes
\* it once that time is earlier than now minus the retention window.
C1_ShortNameUsesMtime ==
    \A s \in Sessions :
        LET e == last[s]
        IN  (e.isfile /\ Segments(e.name) < 4 /\ e.res # "pending")
            => /\ e.ts = e.mtime
               /\ DtLess(e.mtime[1], DtMinus(now[s], 300))
                  => e.res \in {"removed", "failed"}

\* C2: a regular file whose name has at least 4 segments and whose
\* second-to-last segment parses as YYYYMMDDHHMMSS is judged by that
\* timestamp: the sweep keeps it if and only if the timestamp is not strictly
\* earlier than now minus 5 minutes, and otherwise calls os.remove, which
\* takes the file out of the directory unless the deletion fails (the file
\* is locked or already gone).  MyVideo_720p_20240101120000_ab12cd34.mp4
\* goes at 12:06:00 and stays at 12:04:00 and at 12:05:00 (timestamp =
\* cutoff).
C2_NameTimestampDecides ==
    /\ [](/\ \A s \in Sessions :
               LET e == last[s]
                   parts == Split(e.name, "_")
                   t == Strptime(parts[Len(parts) - 1])
                   cutoff == DtMinus(now[s], 300)
               IN  (e.isfile /\ Len(parts) >= 4 /\ t.ok)
                   => /\ e.how = "name"
                      /\ e.ts = <<t.dt>>
                      /\ e.res \in {"pending", "removed", "failed", "kept"}
                      /\ e.res = "kept" <=> ~DtLess(t.dt, cutoff)
          /\ TsFromName(NameMyVideo).ts = <<Noon(0)>>
          /\ Expired(<<Noon(0)>>, Cutoff(Noon(6)))
          /\ ~Expired(<<Noon(0)>>, Cutoff(Noon(4)))
          /\ ~Expired(<<Noon(0)>>, Cutoff(Noon(5))))
    /\ [][\A s \in Sessions :
            LET e == last'[s]
            IN  (last[s].res = "pending" /\ e.how = "name" /\ e.res # "pending")
                => IF Has(dir, e.name) /\ ~Get(dir, e.name).locked
                   THEN e.res = "removed" /\ ~Has(dir', e.name)
                   ELSE e.res = "failed" /\ dir' = dir]_vars

\* C2's case: the sweep of 12:06:00 has removed the file stamped 12:00:00
C2_Witness ==
    \E s \in Sessions :
        /\ last[s].name = NameMyVideo
        /\ last[s].res = "removed"
        /\ now[s] = Noon(6)
        /\ ~Has(dir, NameMyVideo)

\* C3: a failure to delete one file (the file is locked, or another session
\* removed it first) does not abort the sweep: the step in which os.remove
\* raises leaves the session in the loop, at the next directory entry, with
\* the count and the directory as they were.
C3_DeleteFailureDoesNotAbort ==
    [][\A s \in Sessions :
          (pc[s] = "remove" /\ last[s].res = "pending" /\ last'[s].res = "failed")
          => /\ pc'[s] = "sweep"
             /\ listing'[s] = Tail(listing[s])
             /\ cleaned_count'[s] = cleaned_count[s]
             /\ dir' = dir]_vars

\* C3's case: after a failed deletion the same pass removed a later entry
C3_Witness ==
    \E s \in Sessions :
        /\ "error: deleting" \in shown[s]
        /\ last[s].res = "removed"
        /\ pc[s] = "sweep"

\* C4: in every run of the script, cleanup_old_files has returned before
\* the button handler calls download_youtube_video_for_streamlit, so the
\* run writes no file before its sweep is over.
C4_SweepBeforeDownload ==
    \A s \in Sessions :
        (pc[s] \in {"dl_begin", "dl_run"} \/ dl[s] # NoDl)
        => swept[s] /\ listing[s] = <<>>

\* C4's case: a download is writing its file, after the run's sweep
C4_Witness ==
    \E s \in Sessions :
        pc[s] = "dl_run" /\ swept[s] /\ Has(dir, dl[s].file_name)

\* C5: download_youtube_video_for_streamlit selects among the progressive
\* streams only: with no progressive stream it selects nothing and raises;
\* otherwise it selects a progressive stream, one labelled with the requested
\* resolution if a progressive stream has that label, else one of the highest
\* resolution, whatever the video-only streams offer.
C5_OnlyProgressiveConsidered ==
    (ret.fn = "download_youtube_video_for_streamlit" /\ arg.video.err = NoExc)
    => LET ss == arg.video.streams
           prog == {i \in 1..Len(ss) : ss[i].progressive}
           t == ret.out.target
       IN  IF prog = {}
           THEN t = None /\ ret.out.raised = NoProgressive
           ELSE /\ t # None
                /\ \E i \in prog : ss[i] = t[1]
                /\ IF \E i \in prog : ss[i].res = arg.resolution
                   THEN t[1].res = arg.resolution
                   ELSE \A i \in prog : ResNum(ss[i].res) <= ResNum(t[1].res)

\* C5's case: 1080p requested, the video offers a video-only 1080p, a
\* progressive 720p and an audio stream; the progressive 720p is selected
C5_Witness ==
    /\ ret.fn = "download_youtube_video_for_streamlit"
    /\ arg.resolution = R1080
    /\ arg.video.streams = <<S137, S22, S140>>
    /\ ret.out.target = <<S22>>

\* C6: a request for a video without any progressive stream fails with an
\* error shown to the user: the step that fails leaves the directory as it
\* was, no download is started, download_info is None afterwards and the
\* run does not get to opening a file for the download button.
C6_NoProgressiveNoOutput ==
    /\ [](\A s \in Sessions :
            outcome[s] = NoProgressive
            => /\ "error: unexpected during download" \in shown[s]
               /\ download_info[s] = None
               /\ dl[s] = NoDl
               /\ pc[s] = "serve")
    /\ [][\A s \in Sessions :
            /\ (outcome[s] # NoProgressive /\ outcome'[s] = NoProgressive)
               => dir' = dir
            /\ (outcome[s] = NoProgressive /\ pc'[s] # pc[s])
               => pc'[s] = "idle"]_vars

\* C6's case: the request of a session has just failed for want of a
\* progressive stream, and the run is about to reach the download button
C6_Witness ==
    \E s \in Sessions :
        /\ outcome[s] = NoProgressive
        /\ pc[s] = "serve"
        /\ download_info[s] = None
        /\ "error: unexpected during download" \in shown[s]

\* C7: a run of cleanup_old_files that follows a completed run of the same
\* session with the same value of now, no file having been created since
\* that earlier run began, removes no file.
C7_SweepIdempotent ==
    \A s \in Sessions : repeat[s] => (removed[s] = 0 /\ cleaned_count[s] = 0)

\* C7's case: the second of two such runs is over; the first had removed
\* the expired file and kept the others, which the second examined again
C7_Witness ==
    \E s \in Sessions :
        /\ repeat[s] /\ swept[s] /\ pc[s] = "ui"
        /\ runs = 2 /\ \A t \in Sessions \ {s} : pc[t] = "idle" /\ ~swept[t]
        /\ ~Has(dir, NameMyVideo) /\ Has(dir, NameOld) /\ Has(dir, NameVideo)

\* C8: cleaned_count is at every moment the number of files the pass has
\* removed from the directory, and what cleanup_old_files reports at its end
\* is that number: "cleaned up" if and only if it removed a file.
C8_CountIsRemovals ==
    \A s \in Sessions :
        /\ cleaned_count[s] = removed[s]
        /\ pc[s] \in {"ui", "dl_begin", "dl_run", "serve", "open"}
           => /\ "success: cleaned up" \in shown[s] <=> removed[s] > 0
              /\ "info: no old files" \in shown[s] <=> removed[s] = 0

\* C8's case: a pass is over in which one deletion failed, one file was
\* removed and one was kept; it counts 1
C8_Witness ==
    \E s \in Sessions :
        /\ pc[s] = "ui"
        /\ cleaned_count[s] = 1
        /\ "error: deleting" \in shown[s]
        /\ last[s].res = "kept"

\* C9 as stated: whatever the resolver raises, the caller of the download
\* function and the caller of the listing function get that same exception.
C9_ResolverErrorsUnchanged ==
    (ret.fn # "none" /\ arg.video.err # NoExc) => ret.out.raised = arg.video.err

\* C9: an exception of the resolver reaches the caller of
\* download_youtube_video_for_streamlit unchanged; process_youtube_streams
\* raises another one in its place, a ValueError with a fixed message for
\* VideoUnavailable and RegexMatchError, and for any other an Exception
\* whose message ends with the message of the original.
C9_ResolverErrorsPerFunction ==
    (ret.fn # "none" /\ arg.video.err # NoExc)
    => LET e == arg.video.err
           r == ret.out.raised
       IN  IF ret.fn = "download_youtube_video_for_streamlit"
           THEN r = e
           ELSE /\ r # e
                /\ r.cls # e.cls
                /\ IF e.cls \in {"VideoUnavailable", "RegexMatchError"}
                   THEN /\ r.cls = "ValueError"
                        /\ \A i \in 1..Len(r.msg) : \A j \in 1..Len(e.msg) :
                              r.msg[i] # e.msg[j]
                   ELSE /\ r.cls = "Exception"
                        /\ Len(r.msg) = Len(e.msg) + 1
                        /\ SubSeq(r.msg, 2, Len(r.msg)) = e.msg

\* C9's case: the resolver raised VideoUnavailable in
\* process_youtube_streams, whose caller got a ValueError
C9_Witness ==
    /\ ret.fn = "process_youtube_streams"
    /\ arg.video.err = VideoUnavailable
    /\ ret.out.raised.cls = "ValueError"

\* C10: for a video with one progressive 720p stream, one video-only 1080p
\* stream and one audio-only stream, process_youtube_streams lists all
\* three: the progressive one (720p), then the audio-only one (whose
\* resolution an entry gives as N/A), then the video-only one (1080p).
C10_ListingHasAllThree ==
    (/\ ret.fn = "process_youtube_streams"
     /\ arg.video.err = NoExc
     /\ arg.video.streams = <<S137, S22, S140>>)
    => /\ ret.out.raised = NoExc
       /\ [i \in 1..Len(ret.out.list) |-> ret.out.list[i].resolution]
          = <<R720, <<"N", "/", "A">>, R1080>>

\* C11: process_youtube_streams never returns an empty list; for a video of
\* which neither a progressive nor a video-only stream is selected it raises,
\* and the script in API mode then still answers with a JSON response whose
\* status is "error", whose message is not empty and whose
\* downloaded_streams_info is empty.
C11_NoStreamIsReportedFailure ==
    (ret.fn \in {"process_youtube_streams", "api_mode"} /\ arg.video.err = NoExc)
    => LET ss == arg.video.streams
           usable == {i \in 1..Len(ss) : ss[i].type = "video"}
       IN  /\ ret.out.raised = NoExc => ret.out.list # <<>>
           /\ usable = {}
              => /\ ret.out.raised # NoExc
                 /\ ret.out.list = <<>>
                 /\ ret.fn = "api_mode"
                    => /\ ret.json.status = "error"
                       /\ ret.json.message # <<>>
                       /\ ret.json.message[Len(ret.json.message)] = NoStreams.msg[1]
                       /\ ret.json.downloaded_streams_info = <<>>

\* C11's case: API mode on a video that has an audio stream only
C11_Witness ==
    /\ ret.fn = "api_mode"
    /\ arg.video.streams = <<S140>>
    /\ ret.json.status = "error"
    /\ ret.json.downloaded_streams_info = <<>>

\* C12: whatever download_youtube_video_for_streamlit raises, the button
\* handler catches it: after a failed request download_info is None, also if
\* it was set before, no download is left in progress, the run goes on to
\* the download button block and from there to the end of the script, after
\* which the session can start its next run.
C12_FailureLeavesCleanState ==
    /\ [](\A s \in Sessions :
            outcome[s] # NoExc
            => /\ download_info[s] = None
               /\ dl[s] = NoDl
               /\ pc[s] = "serve")
    /\ [][\A s \in Sessions :
            (outcome[s] # NoExc /\ pc'[s] # pc[s])
            => /\ pc'[s] = "idle"
               /\ download_info'[s] = None
               /\ outcome'[s] = NoExc]_vars

\* C12's case: a request has failed in a session whose download_info was
\* set by an earlier request; it is None now
C12_Witness ==
    \E s \in Sessions :
        /\ outcome[s] # NoExc
        /\ info_before[s]
        /\ download_info[s] = None
        /\ pc[s] = "serve"

\* C13: a regular file whose name has at least 4 segments but whose
\* second-to-last segment strptime rejects (a_b_c_d.mp4) is judged by the
\* modification time read when the parse has failed: the sweep keeps it if
\* and only if that time is not strictly earlier than now minus 5 minutes,
\* and otherwise calls os.remove, which takes the file out of the directory
\* unless the deletion fails.
C13_UnparsableNameUsesMtime ==
    /\ [](\A s \in Sessions :
            LET e == last[s]
                parts == Split(e.name, "_")
                t == Strptime(parts[Len(parts) - 1])
                cutoff == DtMinus(now[s], 300)
            IN  (e.isfile /\ Len(parts) >= 4 /\ ~t.ok)
                => IF pc[s] = "getmtime"
                   THEN e.res = "pending" /\ e.ts = None
                   ELSE /\ e.how = "mtime"
                        /\ e.ts # None
                        /\ e.ts = e.mtime
                        /\ e.res \in {"pending", "removed", "failed", "kept"}
                        /\ e.res = "kept" <=> ~DtLess(e.ts[1], cutoff))
    /\ [][\A s \in Sessions :
            LET e == last'[s]
            IN  /\ (pc[s] = "getmtime" /\ e.how = "mtime")
                   => e.ts = <<Get(dir, e.name).mtime>>
                /\ (last[s].res = "pending" /\ e.how = "mtime" /\ e.res \in {"removed", "failed"})
                   => IF Has(dir, e.name) /\ ~Get(dir, e.name).locked
                      THEN e.res = "removed" /\ ~Has(dir', e.name)
                      ELSE e.res = "failed" /\ dir' = dir]_vars

\* C13's case: a sweep has removed a_b_c_d.mp4 on its modification time
C13_Witness ==
    \E s \in Sessions :
        /\ last[s].name = NameABCD
        /\ last[s].how = "mtime"
        /\ last[s].res = "removed"
        /\ DtLess(last[s].mtime[1], Cutoff(now[s]))
        /\ ~Has(dir, NameABCD)

\* C14: whatever the title and the resolution, the file name that
\* download_youtube_video_for_streamlit builds has at least 4 segments and
\* its second-to-last segment parses, with the sweep's format, to the time
\* of the call to the second; so the sweep takes the timestamp of such a
\* file from its name and never from its modification time.
C14_FileNameRoundTrip ==
    (ret.fn = "download_youtube_video_for_streamlit" /\ ret.out.target # None)
    => LET f == ret.out.file_name
           parts == Split(f, "_")
           t == Strptime(parts[Len(parts) - 1])
       IN  /\ Len(parts) >= 4
           /\ parts[Len(parts) - 1] = Strftime(ret.time)
           /\ t.ok
           /\ t.dt = <<ret.time[1], ret.time[2], 0>>
           /\ TsFromName(f) = [how |-> "name", ts |-> <<t.dt>>]

\* C14's case: a title with a space, an underscore, a dot and a dropped
\* character, downloaded in the last microsecond of 29 February
C14_Witness ==
    /\ ret.fn = "download_youtube_video_for_streamlit"
    /\ arg.video.title = TitleMixed
    /\ ret.time = MkDt(2024, 2, 29, 23, 59, 59, 999999)
    /\ ret.out.target # None
    /\ Segments(ret.out.file_name) = 6
    /\ TsFromName(ret.out.file_name).how = "name"

\* C15: with two sessions interleaved in any way, a session that has passed
\* the os.path.exists check of the download button block finds the file
\* still there when it opens it, and the file a download is writing stays in
\* the directory until the download is over: no sweep removes either.
C15_NoSweepUnderUse ==
    \A s \in Sessions :
        /\ pc[s] = "open" => Exists(dir, download_info[s][1].file_path)
        /\ pc[s] = "dl_run" => Has(dir, dl[s].file_name)
====
